---- MODULE Spec2Model ----
(***************************************************************************)
(* Model of the presigned-cleanup lambda                                   *)
(* (src/lambdas/presigned-cleanup/src/event_handler.rs).                   *)
(*                                                                         *)
(* One invocation of outer_function_handler is a run.  Every await point   *)
(* of the handler is one action; the outcome of each fallible call         *)
(* (dependencies build, get_root_pool, Tenant::all, get_tenant_pool,       *)
(* find_expired, delete, delete_file) is chosen nondeterministically.      *)
(* The variable log records every call that was issued, with its run, its  *)
(* tenant, the task snapshot it acted on and its outcome.                  *)
(***************************************************************************)
EXTENDS Integers, Sequences, FiniteSets, TLC

\* ------------------------------------------------------------------ bounds
NumTenants == 3
MaxTasks == 3
MaxTime == 2
MaxRuns == 2
MaxFaults == 2

\* ------------------------------------------------------------- data model
Tenants == 1..NumTenants
TaskIds == 1..MaxTasks
Statuses == {"Pending", "Completed", "Failed"}

\* Owner of a task row: tenant 1 owns tasks 1 and 2, the other tasks are
\* dealt round-robin to tenants 2..NumTenants (a tenant may own none).
TenantOf(id) == IF id <= 2 THEN 1 ELSE ((id - 3) % (NumTenants - 1)) + 2

\* task.file_key: every task targets its own storage object (two tasks never
\* share a key)
FileKey(id) == <<"up", id>>

\* PresignedUploadTask row
Task(id, status, expires_at) ==
    [id |-> id, status |-> status, expires_at |-> expires_at, file_key |-> FileKey(id)]

NoTask == [id |-> 0, status |-> "none", expires_at |-> 0, file_key |-> <<>>]

VARIABLES
    now,            \* Utc::now()
    db,             \* db[T]: the presigned-task rows of tenant T
    files,          \* files[T]: the object keys present in T's storage
    cell,           \* DEPENDENCIES is initialized
    pc,             \* position of the handler
    run,            \* number of the current invocation (0 before the first)
    rootHeld,       \* the root pool handle `db` of lines 66-77 is live
    tenants,        \* tenants still to be iterated by the loop of line 79
    tenant,         \* the loop variable (0 outside an iteration)
    tenantHeld,     \* the tenant pool handle `db` of line 81 is live
    storageHeld,    \* the tenant storage layer of line 86 is live
    tasks,          \* tasks still to be iterated by the loop of line 111
    task,           \* the loop variable of line 111 (NoTask outside)
    deleted,        \* outcome of PresignedUploadTask::delete for `task`
    purgeResult,    \* result of purge_expired_presigned_tasks
    handlerResult,  \* result of outer_function_handler
    log             \* every call issued so far

vars == <<now, db, files, cell, pc, run, rootHeld, tenants, tenant, tenantHeld,
          storageHeld, tasks, task, deleted, purgeResult, handlerResult, log>>

\* ---------------------------------------------------------------- helpers
\* one logged call: `at` is the clock value read for the call (current_date
\* of line 105 for "find_expired"; no other call reads the clock), 0 otherwise
Event(op, T, t, ok) ==
    [run |-> run, op |-> op, tenant |-> T, task |-> t, ok |-> ok,
     at |-> IF op = "find_expired" THEN now ELSE 0]

\* the order in which find_expired returns its rows: ascending by id
RECURSIVE SortById(_)
SortById(S) ==
    IF S = {} THEN <<>>
    ELSE LET m == CHOOSE x \in S : \A y \in S : x.id <= y.id
         IN <<m>> \o SortById(S \ {m})

\* the calls that have failed so far
Faults == Cardinality({i \in DOMAIN log : ~log[i].ok})

\* the outcomes a fallible call may have: failures are injected up to MaxFaults
Outcomes == IF Faults < MaxFaults THEN BOOLEAN ELSE {TRUE}

\* Tenant::all: the listing of the root registry
Tenant_all == [i \in 1..NumTenants |-> i]

\* a finder that leaves out the rows expiring exactly at current_date
find_expired_strict(store, current_date) ==
    SortById({t \in store : t.expires_at < current_date})

\* a finder that returns the first expired row only
find_expired_first(store, current_date) ==
    LET found == SortById({t \in store : t.expires_at <= current_date})
    IN IF found = <<>> THEN <<>> ELSE <<Head(found)>>

\* a finder that compares against a date one tick too late
find_expired_late(store, current_date) ==
    SortById({t \in store : t.expires_at <= current_date + 1})

\* a finder that returns every expired row twice
find_expired_twice(store, current_date) ==
    SortById({t \in store : t.expires_at <= current_date})
        \o SortById({t \in store : t.expires_at <= current_date})

\* PresignedUploadTask::find_expired(db, current_date)
find_expired(store, current_date) ==
    SortById({t \in store : t.expires_at <= current_date})

\* PresignedUploadTask::delete(db, id), when it succeeds
delete(store, id) == {t \in store : t.id /= id}

\* storage.delete_file(key), when it succeeds
delete_file(objects, key) == objects \ {key}

\* a reclaimer without the status match: every task's object is deleted
calls_delete_file_any(record_deleted, status) == TRUE

\* lines 113-130: is delete_file called for a task, given the outcome of
\* the record delete and the task's status?  The outcome is only logged.
calls_delete_file(record_deleted, status) == status \in {"Failed", "Pending"}

\* a handler that hands the purge error to the lambda runtime
function_handler_propagate(purge) == IF purge = "Ok" THEN "Ok" ELSE "Err"

\* function_handler, lines 52-57: the purge error is logged, Ok(()) returned
function_handler(purge) == "Ok"

\* a purge that keeps the root pool handle for the whole tenant loop
root_pool_kept(listed) == listed

\* lines 74-77: is the root pool handle `db` still live after Tenant::all?
\* drop(db) releases it when the listing succeeded, the `?` of line 74 ends
\* its scope when the listing failed
root_pool_after_listing(listed) == FALSE

\* a tenant scope that leaks its handles when the expired-task query failed
tenant_scope_leak(query_ok) == ~query_ok

\* lines 79-95: are the tenant pool handle and the storage layer still live
\* once purge_expired_presigned_tasks_tenant has returned?  Both are locals
\* of the loop body, dropped at the end of the iteration whatever it returned
tenant_scope_after_purge(query_ok) == FALSE

\* a task loop that takes the batch from its end
advance_from_end(batch) == <<batch[Len(batch)], SubSeq(batch, 1, Len(batch) - 1)>>

\* line 111, `for task in tasks`: the next task and the tasks left after it
advance(batch) == <<Head(batch), Tail(batch)>>

\* a handler that builds the dependencies on every invocation
needs_build_always(initialized) == TRUE

\* line 43, get_or_try_init: the init function runs only while the cell is
\* uninitialized
needs_build(initialized) == ~initialized

\* ------------------------------------------------------------------- Init
Init ==
    /\ now = 1
    /\ \E st \in [TaskIds -> Statuses], ex \in [TaskIds -> 1..MaxTime] :
          db = [T \in Tenants |->
                  {Task(id, st[id], ex[id]) : id \in {i \in TaskIds : TenantOf(i) = T}}]
    /\ files = [T \in Tenants |-> {FileKey(id) : id \in {i \in TaskIds : TenantOf(i) = T}}]
    /\ cell = FALSE
    /\ pc = "idle"
    /\ run = 0
    /\ rootHeld = FALSE
    /\ tenants = <<>>
    /\ tenant = 0
    /\ tenantHeld = FALSE
    /\ storageHeld = FALSE
    /\ tasks = <<>>
    /\ task = NoTask
    /\ deleted = FALSE
    /\ purgeResult = "none"
    /\ handlerResult = "none"
    /\ log = <<>>

\* ---------------------------------------------------------------- actions
\* the clock advances.  The handler reads it at line 105 only, so the time
\* that passes anywhere else is folded into the steps taken right before
\* that read.
Tick ==
    /\ pc = "find"
    /\ now < MaxTime
    /\ now' = now + 1
    /\ UNCHANGED <<db, files, cell, pc, run, rootHeld, tenants, tenant, tenantHeld,
                   storageHeld, tasks, task, deleted, purgeResult, handlerResult, log>>

\* the scheduled event arrives: main.rs line 12 calls outer_function_handler
Invoke ==
    /\ pc \in {"idle", "returned"}
    /\ run < MaxRuns
    /\ run' = run + 1
    /\ pc' = "deps"
    /\ purgeResult' = "none"
    /\ handlerResult' = "none"
    /\ log' = Append(log, [Event("invoke", 0, NoTask, TRUE) EXCEPT !.run = run + 1])
    /\ UNCHANGED <<now, db, files, cell, rootHeld, tenants, tenant, tenantHeld,
                   storageHeld, tasks, task, deleted>>

\* line 43: DEPENDENCIES.get_or_try_init(dependencies).await?
GetOrTryInit ==
    /\ pc = "deps"
    /\ \/ /\ ~needs_build(cell)
          /\ pc' = "root"
          /\ UNCHANGED <<cell, handlerResult, log>>
       \/ /\ needs_build(cell)
          /\ cell' = TRUE
          /\ pc' = "root"
          /\ log' = Append(log, Event("dependencies", 0, NoTask, TRUE))
          /\ UNCHANGED handlerResult
       \/ /\ needs_build(cell)
          /\ FALSE \in Outcomes
          /\ pc' = "returned"
          /\ handlerResult' = "Err"
          /\ log' = Append(log, Event("dependencies", 0, NoTask, FALSE))
          /\ UNCHANGED cell
    /\ UNCHANGED <<now, db, files, run, rootHeld, tenants, tenant, tenantHeld,
                   storageHeld, tasks, task, deleted, purgeResult>>

\* lines 66-69: db_cache.get_root_pool().await.map_err(..)?
GetRootPool ==
    /\ pc = "root"
    /\ \E ok \in Outcomes :
          /\ log' = Append(log, Event("get_root_pool", 0, NoTask, ok))
          /\ IF ok
             THEN /\ rootHeld' = TRUE
                  /\ pc' = "list"
                  /\ UNCHANGED <<purgeResult, handlerResult>>
             ELSE /\ purgeResult' = "ConnectDatabase"
                  /\ handlerResult' = function_handler("ConnectDatabase")
                  /\ pc' = "returned"
                  /\ UNCHANGED rootHeld
    /\ UNCHANGED <<now, db, files, cell, run, tenants, tenant, tenantHeld,
                   storageHeld, tasks, task, deleted>>

\* lines 71-77: Tenant::all(&db).await.map_err(..)?; drop(db)
TenantAll ==
    /\ pc = "list"
    /\ \E ok \in Outcomes :
          /\ log' = Append(log, Event("all", 0, NoTask, ok))
          /\ rootHeld' = root_pool_after_listing(ok)
          /\ IF ok
             THEN /\ tenants' = Tenant_all
                  /\ pc' = "loop"
                  /\ UNCHANGED <<purgeResult, handlerResult>>
             ELSE /\ purgeResult' = "QueryTenants"
                  /\ handlerResult' = function_handler("QueryTenants")
                  /\ pc' = "returned"
                  /\ UNCHANGED tenants
    /\ UNCHANGED <<now, db, files, cell, run, tenant, tenantHeld,
                   storageHeld, tasks, task, deleted>>

\* lines 79-86: next tenant; get_tenant_pool(&tenant).await.map_err(..)?;
\* storage.create_storage_layer(&tenant)
GetTenantPool ==
    /\ pc = "loop"
    /\ tenants /= <<>>
    /\ \E ok \in Outcomes :
          /\ log' = Append(log, Event("get_tenant_pool", Head(tenants), NoTask, ok))
          /\ IF ok
             THEN /\ tenant' = Head(tenants)
                  /\ tenants' = Tail(tenants)
                  /\ tenantHeld' = TRUE
                  /\ storageHeld' = TRUE
                  /\ pc' = "find"
                  /\ UNCHANGED <<purgeResult, handlerResult>>
             ELSE /\ tenant' = 0
                  /\ tenants' = <<>>
                  /\ purgeResult' = "ConnectDatabase"
                  /\ handlerResult' = function_handler("ConnectDatabase")
                  /\ pc' = "returned"
                  /\ UNCHANGED <<tenantHeld, storageHeld>>
    /\ UNCHANGED <<now, db, files, cell, run, rootHeld, tasks, task, deleted>>

\* lines 95-97: the tenant loop is exhausted; Ok(())
PurgeDone ==
    /\ pc = "loop"
    /\ tenants = <<>>
    /\ purgeResult' = "Ok"
    /\ handlerResult' = function_handler("Ok")
    /\ pc' = "returned"
    /\ UNCHANGED <<now, db, files, cell, run, rootHeld, tenants, tenant, tenantHeld,
                   storageHeld, tasks, task, deleted, log>>

\* lines 105-109 (and 88-94 on error): Utc::now(); find_expired(..).await?;
\* an empty batch returns Ok(()) at once
FindExpired ==
    /\ pc = "find"
    /\ \E ok \in Outcomes :
          /\ log' = Append(log, Event("find_expired", tenant, NoTask, ok))
          /\ IF ok /\ find_expired(db[tenant], now) /= <<>>
             THEN /\ tasks' = find_expired(db[tenant], now)
                  /\ pc' = "delete"
                  /\ UNCHANGED <<tenant, tenantHeld, storageHeld>>
             ELSE /\ tasks' = <<>>
                  /\ tenant' = 0
                  /\ tenantHeld' = tenant_scope_after_purge(ok)
                  /\ storageHeld' = tenant_scope_after_purge(ok)
                  /\ pc' = "loop"
    /\ UNCHANGED <<now, db, files, cell, run, rootHeld, tenants, task, deleted,
                   purgeResult, handlerResult>>

\* lines 111-115: next task; PresignedUploadTask::delete(db, task.id).await
DeleteTask ==
    /\ pc = "delete"
    /\ tasks /= <<>>
    /\ \E ok \in Outcomes :
          /\ log' = Append(log, Event("delete", tenant, advance(tasks)[1], ok))
          /\ deleted' = ok
          /\ db' = IF ok THEN [db EXCEPT ![tenant] = delete(db[tenant], advance(tasks)[1].id)]
                         ELSE db
    /\ task' = advance(tasks)[1]
    /\ tasks' = advance(tasks)[2]
    /\ pc' = "match"
    /\ UNCHANGED <<now, files, cell, run, rootHeld, tenants, tenant, tenantHeld,
                   storageHeld, purgeResult, handlerResult>>

\* lines 117-131: match task.status; storage.delete_file(&task.file_key).await;
\* then the next task, or Ok(()) of line 133 back in the tenant loop
MatchStatus ==
    /\ pc = "match"
    /\ IF calls_delete_file(deleted, task.status)
       THEN \E ok \in Outcomes :
               /\ log' = Append(log, Event("delete_file", tenant, task, ok))
               /\ files' = IF ok
                           THEN [files EXCEPT ![tenant] = delete_file(files[tenant], task.file_key)]
                           ELSE files
       ELSE UNCHANGED <<log, files>>
    /\ task' = NoTask
    /\ deleted' = FALSE
    /\ IF tasks /= <<>>
       THEN /\ pc' = "delete"
            /\ UNCHANGED <<tenant, tenantHeld, storageHeld>>
       ELSE /\ pc' = "loop"
            /\ tenant' = 0
            /\ tenantHeld' = tenant_scope_after_purge(TRUE)
            /\ storageHeld' = tenant_scope_after_purge(TRUE)
    /\ UNCHANGED <<now, db, cell, run, rootHeld, tenants, tasks, purgeResult, handlerResult>>

Next ==
    \/ Tick
    \/ Invoke
    \/ GetOrTryInit
    \/ GetRootPool
    \/ TenantAll
    \/ GetTenantPool
    \/ PurgeDone
    \/ FindExpired
    \/ DeleteTask
    \/ MatchStatus

Spec == Init /\ [][Next]_vars

\* ------------------------------------------------- the upload-completion flow
\* The flow that completes an upload marks a Pending task Completed once its
\* object is fully written.  It runs beside the handler; the steps modelled
\* are those that fall between the expired-task query that returned the task
\* and the end of the handler's work on it (a completion before the query is
\* an initial state with the task Completed).
InBatch(id) ==
    \/ task.id = id
    \/ \E i \in DOMAIN tasks : tasks[i].id = id

CompleteUpload ==
    /\ pc \in {"delete", "match"}
    /\ \E t \in db[tenant] :
          /\ t.status = "Pending"
          /\ t.file_key \in files[tenant]
          /\ InBatch(t.id)
          /\ db' = [db EXCEPT ![tenant] =
                       (@ \ {t}) \cup {[t EXCEPT !.status = "Completed"]}]
    /\ UNCHANGED <<now, files, cell, pc, run, rootHeld, tenants, tenant, tenantHeld,
                   storageHeld, tasks, task, deleted, purgeResult, handlerResult, log>>

NextUpload == Next \/ CompleteUpload

SpecUpload == Init /\ [][NextUpload]_vars

\* ------------------------------------------------------ the external deadline
\* The invoking scheduler's timeout stops the handler at whatever await point
\* it has reached: the process is gone with everything it held, the stores
\* keep what was done so far, and the next scheduled event starts a fresh
\* process.  Only a run that another run can follow is stopped.
Deadline ==
    /\ pc \in {"deps", "root", "list", "loop", "find", "delete", "match"}
    /\ run < MaxRuns
    /\ log' = Append(log, Event("deadline", tenant, task, TRUE))
    /\ pc' = "idle"
    /\ cell' = FALSE
    /\ rootHeld' = FALSE
    /\ tenants' = <<>>
    /\ tenant' = 0
    /\ tenantHeld' = FALSE
    /\ storageHeld' = FALSE
    /\ tasks' = <<>>
    /\ task' = NoTask
    /\ deleted' = FALSE
    /\ UNCHANGED <<now, db, files, run, purgeResult, handlerResult>>

NextDeadline == Next \/ Deadline

SpecDeadline == Init /\ [][NextDeadline]_vars

TypeOK ==
    /\ now \in 1..MaxTime
    /\ run \in 0..MaxRuns
    /\ pc \in {"idle", "deps", "root", "list", "loop", "find", "delete", "match", "returned"}
    /\ purgeResult \in {"none", "Ok", "ConnectDatabase", "QueryTenants"}
    /\ handlerResult \in {"none", "Ok", "Err"}
\* ------------------------------------------------------- reading the log
Returned == pc = "returned"

\* the calls of run r
Calls(r) == {i \in DOMAIN log : log[i].run = r}

\* run r issued call op for tenant T with outcome ok
Called(r, op, T, ok) ==
    \E i \in Calls(r) : log[i].op = op /\ log[i].tenant = T /\ log[i].ok = ok

\* run r issued call op on task id with outcome ok
CalledTask(r, op, id, ok) ==
    \E i \in Calls(r) : log[i].op = op /\ log[i].task.id = id /\ log[i].ok = ok

\* the reference time of tenant T in run r: current_date of line 105, read
\* right before T's expired-task query is issued (and logged with it, whether
\* the query succeeds or fails)
RefTime(r, T) ==
    log[CHOOSE i \in Calls(r) : log[i].op = "find_expired" /\ log[i].tenant = T].at

\* root session and tenant listing of run r succeeded / one of them failed
RootOk(r) == Called(r, "all", 0, TRUE)
RootFailed(r) == Called(r, "get_root_pool", 0, FALSE) \/ Called(r, "all", 0, FALSE)

\* orchestrator states of section 4.5, for a run that has returned
TenantPurged(r, T) == Called(r, "find_expired", T, TRUE)
TenantFailed(r, T) ==
    Called(r, "get_tenant_pool", T, FALSE) \/ Called(r, "find_expired", T, FALSE)
Processed(r, T) == TenantPurged(r, T) \/ TenantFailed(r, T)

\* the tenants listed after T
After(T) == {B \in Tenants : B > T}

\* run r issued no tenant-level call at all
NoTenantCall(r) ==
    \A i \in Calls(r) :
        log[i].op \notin {"get_tenant_pool", "find_expired", "delete", "delete_file"}

\* the purge of run r, a run that has returned, went through all listed
\* tenants and returned Ok
PurgeOk(r) ==
    RootOk(r) /\ \A T \in Tenants : ~Called(r, "get_tenant_pool", T, FALSE)

\* every call of run r succeeded, storage deletes apart
Clean(r) == \A i \in Calls(r) : log[i].ok \/ log[i].op = "delete_file"

\* ------------------------------------------------------------------ C1
\* C1 (as stated): once a run whose purge went through all listed tenants
\* has returned, no tenant's store holds a task that had expired at the
\* tenant's reference time in that run.
C1_AllExpiredRecordsGone ==
    (Returned /\ purgeResult = "Ok") =>
        \A T \in Tenants : \A t \in db[T] : t.expires_at > RefTime(run, T)

\* C1 (amended): once a run has returned, for every tenant whose expired-task
\* query succeeded, every task still in its store that had expired at the
\* query's reference time is one whose record delete failed in this run.
C1_ExpiredRecordsGoneUnlessDeleteFailed ==
    Returned =>
        \A T \in Tenants : TenantPurged(run, T) =>
            \A t \in db[T] : t.expires_at <= RefTime(run, T) =>
                CalledTask(run, "delete", t.id, FALSE)

\* a run has returned Ok after deleting the records of a Completed and of a
\* Pending task that expired exactly at their tenant's reference time
C1_Witness ==
    /\ Returned /\ purgeResult = "Ok"
    /\ \E i, j \in Calls(run) :
          /\ log[i].op = "delete" /\ log[i].ok /\ log[i].task.status = "Completed"
          /\ log[i].task.expires_at = RefTime(run, log[i].tenant)
          /\ log[j].op = "delete" /\ log[j].ok /\ log[j].task.status = "Pending"
          /\ log[i].task \notin db[log[i].tenant]
          /\ log[j].task \notin db[log[j].tenant]

\* ------------------------------------------------------------------ C2
\* C2: for a task the expired-task query returned as Completed, no run ever
\* issues a storage delete for its file_key, and its object stays in storage.
C2_CompletedObjectNeverDeleted ==
    \A i \in DOMAIN log :
        (log[i].op = "delete" /\ log[i].task.status = "Completed") =>
            /\ \A j \in DOMAIN log :
                  log[j].op = "delete_file" => log[j].task.file_key /= log[i].task.file_key
            /\ log[i].task.file_key \in files[log[i].tenant]

\* a second run has returned Ok after the first run deleted the record of a
\* Completed task, whose object is still there
C2_Witness ==
    /\ Returned /\ run = 2 /\ purgeResult = "Ok"
    /\ \E i \in Calls(1) :
          /\ log[i].op = "delete" /\ log[i].ok /\ log[i].task.status = "Completed"
          /\ log[i].task \notin db[log[i].tenant]
          /\ log[i].task.file_key \in files[log[i].tenant]

\* ------------------------------------------------------------------ C3
\* C3: when a run has returned and tenant A's pool could not be acquired in
\* it, every other listed tenant B was processed in that run: B was taken to
\* TenantPurged or TenantFailed, and when B's query succeeded a task of B
\* that had expired at B's reference time is left only if its own record
\* delete failed.
C3_TenantConnectFailureIsolated ==
    Returned =>
        \A A \in Tenants : Called(run, "get_tenant_pool", A, FALSE) =>
            \A B \in Tenants \ {A} :
                /\ Processed(run, B)
                /\ TenantPurged(run, B) =>
                      \A t \in db[B] : t.expires_at <= RefTime(run, B) =>
                          CalledTask(run, "delete", t.id, FALSE)

\* ------------------------------------------------------------------ C4
\* C4: when the root session or the tenant listing failed, the run
\* issued no tenant-level call and the entry point returned failure.
C4_RootFailureReported ==
    (Returned /\ RootFailed(run)) =>
        NoTenantCall(run) /\ handlerResult = "Err"

\* ------------------------------------------------------------------ C5
\* C5: a run whose root session and tenant listing succeeded returns Ok from
\* the entry point, whatever tenant-level and task-level calls failed.
C5_HandlerOkWhenRootOk ==
    (Returned /\ RootOk(run)) => handlerResult = "Ok"

\* a run has returned with a failed expired-task query and a failed storage
\* delete in it
C5_Witness ==
    /\ Returned /\ RootOk(run)
    /\ \E A \in Tenants : Called(run, "find_expired", A, FALSE)
    /\ \E i \in Calls(run) : log[i].op = "delete_file" /\ ~log[i].ok

\* a run has returned after a tenant pool could not be acquired
C5_WitnessConnect ==
    /\ Returned /\ RootOk(run)
    /\ \E A \in Tenants : Called(run, "get_tenant_pool", A, FALSE)

\* ------------------------------------------------------------------ C6
\* C6: a run whose root session and tenant listing succeeded returns from
\* the orchestrator with Ok (Done), every listed tenant having been taken to
\* TenantPurged or TenantFailed.
C6_OrchestratorReachesDone ==
    (Returned /\ RootOk(run)) =>
        /\ purgeResult = "Ok"
        /\ \A T \in Tenants : Processed(run, T)

\* ------------------------------------------------------------------ C7
\* C7 (as stated): a run that follows a run whose purge returned Ok issues
\* no record delete and no storage delete for a task that had already
\* expired at its tenant's reference time in the earlier run.
C7_SecondRunDeletesNothing ==
    \A i \in DOMAIN log :
        (/\ log[i].run >= 2
         /\ log[i].op \in {"delete", "delete_file"}
         /\ PurgeOk(log[i].run - 1)) =>
            log[i].task.expires_at > RefTime(log[i].run - 1, log[i].tenant)

\* C7 (amended): the same, when every call of the earlier run succeeded,
\* storage deletes apart.
C7_SecondRunDeletesNothingAfterCleanRun ==
    \A i \in DOMAIN log :
        (/\ log[i].run >= 2
         /\ log[i].op \in {"delete", "delete_file"}
         /\ Clean(log[i].run - 1)) =>
            log[i].task.expires_at > RefTime(log[i].run - 1, log[i].tenant)

\* a second run has returned Ok without a delete, every tenant queried at the
\* reference time it had in the first run, which deleted two records of one
\* tenant and had a storage delete fail
C7_Witness ==
    /\ Returned /\ run = 2 /\ purgeResult = "Ok" /\ Clean(1)
    /\ \A T \in Tenants : TenantPurged(2, T) /\ RefTime(2, T) = RefTime(1, T)
    /\ \E i, j \in Calls(1) :
          /\ i /= j /\ log[i].tenant = log[j].tenant
          /\ log[i].op = "delete" /\ log[j].op = "delete"
    /\ \E i \in Calls(1) : log[i].op = "delete_file" /\ ~log[i].ok
    /\ \A i \in Calls(2) : log[i].op \notin {"delete", "delete_file"}

\* ------------------------------------------------------------------ C8
\* C8: when a run has returned and tenant A's expired-task query failed in
\* it, the run issued no record or storage delete for A, every tenant listed
\* after A was taken to TenantPurged or TenantFailed, and the entry point
\* returned Ok.
C8_QueryFailureIsolated ==
    Returned =>
        \A A \in Tenants : Called(run, "find_expired", A, FALSE) =>
            /\ \A i \in Calls(run) :
                  log[i].tenant = A => log[i].op \notin {"delete", "delete_file"}
            /\ \A B \in After(A) : Processed(run, B)
            /\ handlerResult = "Ok"

\* ------------------------------------------------------------------ C9
\* C9: no run issues a storage delete for a task whose record
\* delete failed in that run.
C9_NoStorageDeleteAfterFailedRecordDelete ==
    \A i \in DOMAIN log :
        (log[i].op = "delete" /\ ~log[i].ok) =>
            ~(\E j \in Calls(log[i].run) :
                 log[j].op = "delete_file" /\ log[j].task.id = log[i].task.id)

\* ----------------------------------------------------------------- C10
\* C10: when a run has returned and the storage delete of a task of tenant A
\* failed in it, the task's record is gone unless its own delete failed, every
\* expired task of A had its record delete issued, every tenant listed after
\* A was taken to TenantPurged or TenantFailed, and the entry point returned
\* Ok.
C10_StorageFailureIsolated ==
    Returned =>
        \A i \in Calls(run) : (log[i].op = "delete_file" /\ ~log[i].ok) =>
            /\ \/ log[i].task \notin db[log[i].tenant]
               \/ CalledTask(run, "delete", log[i].task.id, FALSE)
            /\ \A t \in db[log[i].tenant] :
                  t.expires_at <= RefTime(run, log[i].tenant) =>
                      CalledTask(run, "delete", t.id, FALSE)
            /\ \A B \in After(log[i].tenant) : Processed(run, B)
            /\ handlerResult = "Ok"

\* ----------------------------------------------------------------- C11
\* C11: the root pool handle is live only between get_root_pool and the
\* return of Tenant::all, and never together with a tenant pool handle or a
\* tenant storage layer.
C11_RootNeverHeldWithTenant ==
    /\ rootHeld => pc = "list"
    /\ ~(rootHeld /\ (tenantHeld \/ storageHeld))

\* a tenant pool is held in a run that acquired the root pool before
C11_Witness ==
    /\ pc = "find" /\ tenantHeld /\ ~rootHeld
    /\ Called(run, "get_root_pool", 0, TRUE)
    /\ Called(run, "all", 0, TRUE)

\* ----------------------------------------------------------------- C12
\* C12: the pool handle and the storage layer of a tenant are live exactly
\* while that tenant is being processed (from its get_tenant_pool to the end
\* of its purge): nothing is held when the loop turns to the next tenant or
\* once the run has returned, and every query, record delete and storage
\* delete is issued for the tenant acquired last, on a task of that tenant.
C12_TenantScopeReleased ==
    /\ pc \in {"find", "delete", "match"} =>
          tenantHeld /\ storageHeld /\ tenant \in Tenants
    /\ pc \notin {"find", "delete", "match"} =>
          ~tenantHeld /\ ~storageHeld /\ tenant = 0
    /\ \A i \in DOMAIN log :
          log[i].op \in {"find_expired", "delete", "delete_file"} =>
             /\ LET pools == {j \in 1..(i - 1) : log[j].op = "get_tenant_pool"}
                IN /\ pools /= {}
                   /\ LET last == CHOOSE j \in pools : \A k \in pools : k <= j
                      IN /\ log[last].ok
                         /\ log[last].run = log[i].run
                         /\ log[last].tenant = log[i].tenant
             /\ log[i].op /= "find_expired" => TenantOf(log[i].task.id) = log[i].tenant

\* a run has returned with nothing held after one tenant's expired-task query
\* failed and a later tenant had an object deleted
C12_Witness ==
    /\ Returned /\ purgeResult = "Ok" /\ ~tenantHeld /\ ~storageHeld
    /\ \E A \in Tenants :
          /\ Called(run, "find_expired", A, FALSE)
          /\ \E i \in Calls(run) : log[i].op = "delete_file" /\ log[i].tenant \in After(A)

\* ----------------------------------------------------------------- C13
\* C13: the object of a task whose row says Completed is in storage: the
\* handler never deletes it, also when the row turned Completed after the
\* expired-task query returned it as Pending.
C13_CompletedObjectKept ==
    \A T \in Tenants : \A t \in db[T] :
        t.status = "Completed" => t.file_key \in files[T]

\* ----------------------------------------------------------------- C14
\* run r was stopped by the deadline
Stopped(r) == \E i \in Calls(r) : log[i].op = "deadline"

\* every call of run r succeeded
AllOk(r) == \A i \in Calls(r) : log[i].ok

\* C14: a run that follows a run stopped by the deadline issues no storage
\* delete for a Completed task; when all its calls succeed it returns Ok with
\* every tenant purged and no record left that had expired at its tenant's
\* reference time; and the object of every Completed row is still in storage.
C14_NextRunSafeAfterDeadline ==
    /\ (Returned /\ run >= 2 /\ Stopped(run - 1) /\ AllOk(run)) =>
          /\ purgeResult = "Ok" /\ handlerResult = "Ok"
          /\ \A T \in Tenants :
                /\ TenantPurged(run, T)
                /\ \A t \in db[T] : t.expires_at > RefTime(run, T)
    /\ \A i \in DOMAIN log :
          (log[i].op = "delete_file" /\ log[i].run >= 2 /\ Stopped(log[i].run - 1)) =>
              log[i].task.status /= "Completed"
    /\ \A T \in Tenants : \A t \in db[T] :
          t.status = "Completed" => t.file_key \in files[T]

\* the first run was stopped between the record delete and the storage delete
\* of a Pending task, and the second run has returned, all its calls
\* successful, after deleting a record
C14_Witness ==
    /\ Returned /\ run = 2 /\ AllOk(2)
    /\ \E i \in Calls(1) :
          /\ log[i].op = "deadline" /\ log[i].task.status = "Pending"
          /\ log[i].task.file_key \in files[log[i].tenant]
    /\ \E j \in Calls(2) : log[j].op = "delete" /\ log[j].task.status = "Completed"

\* ----------------------------------------------------------------- C15
\* C15: every storage delete comes right after the record delete of the same
\* task, and within one tenant of one run the tasks are taken in the finder's
\* order (ascending id): every earlier record or storage delete of that
\* tenant is on a task that comes before.
C15_RecordDeleteFirstInFinderOrder ==
    \A i \in DOMAIN log :
        /\ log[i].op = "delete_file" =>
              /\ i > 1
              /\ log[i - 1].op = "delete"
              /\ log[i - 1].task = log[i].task
              /\ log[i - 1].run = log[i].run
              /\ log[i - 1].tenant = log[i].tenant
        /\ log[i].op = "delete" =>
              \A j \in 1..(i - 1) :
                 (/\ log[j].run = log[i].run
                  /\ log[j].tenant = log[i].tenant
                  /\ log[j].op \in {"delete", "delete_file"}) =>
                     log[j].task.id < log[i].task.id

\* two tasks of one tenant were reclaimed one after the other, each with its
\* record delete followed by its storage delete
C15_Witness ==
    \E i \in DOMAIN log :
        /\ i + 3 <= Len(log)
        /\ log[i].op = "delete" /\ log[i + 1].op = "delete_file"
        /\ log[i + 2].op = "delete" /\ log[i + 3].op = "delete_file"
        /\ log[i + 3].tenant = log[i].tenant /\ log[i + 3].run = log[i].run
        /\ log[i + 2].task.id > log[i].task.id

\* ----------------------------------------------------------------- C16
\* C16: a step removes a row or an object, or issues a record or storage
\* delete, only for a task of the tenant being processed whose expires_at is
\* not later than the reference time of that tenant's query in this run.
C16_UnexpiredTasksUntouched ==
    [][/\ \A T \in Tenants : \A t \in db[T] \ db'[T] :
             T = tenant /\ t.expires_at <= RefTime(run, T)
       /\ \A T \in Tenants : \A k \in files[T] \ files'[T] :
             T = tenant /\ k = task.file_key /\ task.expires_at <= RefTime(run, T)
       /\ (Len(log') > Len(log) /\ log'[Len(log')].op \in {"delete", "delete_file"}) =>
             /\ log'[Len(log')].tenant = tenant
             /\ log'[Len(log')].task.expires_at <= RefTime(run, tenant)
      ]_vars

\* a run has returned Ok having deleted the record of one task of a tenant
\* and left the other task of that tenant, not yet expired at the reference
\* time, with its row and its object
C16_Witness ==
    /\ Returned /\ purgeResult = "Ok"
    /\ \E T \in Tenants :
          /\ TenantPurged(run, T)
          /\ \E i \in Calls(run) : log[i].op = "delete" /\ log[i].ok /\ log[i].tenant = T
          /\ \E t \in db[T] :
                /\ t.expires_at > RefTime(run, T)
                /\ t.status = "Pending"
                /\ t.file_key \in files[T]

\* ----------------------------------------------------------------- C17
\* C17: no two storage deletes of one run target the same object.
C17_OneStorageDeletePerRun ==
    LET storageDeletes == {i \in DOMAIN log : log[i].op = "delete_file"}
    IN \A i, j \in storageDeletes :
          (/\ i /= j
           /\ log[i].run = log[j].run
           /\ log[i].tenant = log[j].tenant) =>
              log[i].task.file_key /= log[j].task.file_key

\* a run has returned after storage deletes for a Pending and for a Failed
\* task, one of which failed
C17_Witness ==
    /\ Returned
    /\ \E i, j \in Calls(run) :
          /\ log[i].op = "delete_file" /\ log[i].task.status = "Pending" /\ ~log[i].ok
          /\ log[j].op = "delete_file" /\ log[j].task.status = "Failed"

\* ----------------------------------------------------------------- C18
\* the dependencies builds with outcome ok
Builds(ok) == {i \in DOMAIN log : log[i].op = "dependencies" /\ log[i].ok = ok}

\* C18: the dependencies are built successfully at most once, and the cell is
\* initialized exactly when a build has succeeded; no build is attempted
\* after a successful one; a run whose build failed issues no other call and
\* returns Err; and every run that starts with no successful build behind it
\* attempts the build.
C18_DependenciesBuiltOnce ==
    LET built == Builds(TRUE)
        failed == Builds(FALSE)
    IN /\ Cardinality(built) <= 1
       /\ cell <=> built /= {}
       /\ \A i \in built \cup failed : \A j \in built : j >= i
       /\ \A i \in failed :
             /\ \A j \in Calls(log[i].run) : log[j].op \in {"invoke", "dependencies"}
             /\ log[i].run = run =>
                   (Returned /\ handlerResult = "Err" /\ purgeResult = "none")
       /\ \A r \in 1..run :
             (r < run \/ pc /= "deps") =>
                 \/ \E i \in built \cup failed : log[i].run = r
                 \/ \E i \in built : log[i].run < r

\* a second run has purged with dependencies it built itself, after the
\* first run's build failed
C18_Witness ==
    /\ Returned /\ run = 2 /\ purgeResult = "Ok"
    /\ \E i \in Builds(FALSE) : log[i].run = 1
    /\ \E i \in Builds(TRUE) : log[i].run = 2

\* a second run has purged with the dependencies the first run built
C18_WitnessReuse ==
    /\ Returned /\ run = 2 /\ purgeResult = "Ok"
    /\ \E i \in Builds(TRUE) : log[i].run = 1
====
